---- MODULE Spec2Model ----
(***************************************************************************)
(* Upper-body skeleton reconstruction from head-pose and hand-landmark     *)
(* streams (HoloSyncCapstone/Prototype): the pipeline of calc_body.py and   *)
(* the frame loop of calculate_and_join_skeleton_data.py.                  *)
(*                                                                         *)
(* Numbers.  Lengths are integers in units of USER_HEIGHT/1000 (1.75 mm    *)
(* for the configured height), so every segment length of the body model   *)
(* is an integer.  A quaternion is a record [v, s] standing for the real   *)
(* quaternion v / sqrt(s), v = <<x, y, z, w>> an integer vector and s a    *)
(* positive integer: products of two components, which is all the rotation *)
(* matrix uses, are then rational, and a unit quaternion is one with       *)
(* s = v.v.                                                                *)
(***************************************************************************)
EXTENDS Integers, Sequences, FiniteSets, TLC

VARIABLES
    hand_data,          \* rows of hand_pose_world.csv, in file order
    device_data,        \* rows of device_pose.csv, in file order
    pc,                 \* position of main(): idle, start, loaded, frames, done, load_error, interp_error
    organized,          \* organized_data of load_and_organize_data
    head_positions,     \* result of interpolate_head_data, one per frame
    head_orientations,
    output_data,        \* rows appended by the frame loop of main()
    csv,                \* rows written to OUTPUT_PATH (<<>> until to_csv runs)
    calc_pc,            \* position of calculate_skeleton_data(): idle, frames, done, index_error
    all_frames_data,    \* rows appended by the frame loop of calculate_skeleton_data()
    args,               \* the arguments of a function called on its own (<<>>: none)
    ret,                \* <<its return value>> once it has returned (<<>> before)
    viewer_df,          \* the frames SkeletonAnimator was built on (<<>>: no viewer)
    animator,           \* the plot elements of the SkeletonAnimator
    update_calls        \* the frame_idx of the update_frame calls made so far

vars == <<hand_data, device_data, pc, organized, head_positions,
          head_orientations, output_data, csv, calc_pc, all_frames_data, args, ret,
          viewer_df, animator, update_calls>>

\* Python None; a pandas cell that is NaN, and a numpy vector of NaN
None == <<>>
NaN == <<"NaN">>

\* ------------------------------------------------------------ bounds
MaxHandRows == 3
MaxHandT == 2
MaxHead == 4
MaxT == 4
MaxCoord == 1
MaxJoinRows == 2
MaxViewerFrames == 3
MaxUpdateCalls == 3

\* ------------------------------------------------------------ arithmetic
Abs(n) == IF n < 0 THEN -n ELSE n

RECURSIVE GCD(_, _)
GCD(a, b) == IF b = 0 THEN Abs(a) ELSE GCD(b, a % Abs(b))

\* the square root of a perfect square, by search up to SqrtRange
SqrtRange == 2000
ISqrt(n) == CHOOSE r \in 0..SqrtRange : r * r = n

VAdd(a, b) == <<a[1] + b[1], a[2] + b[2], a[3] + b[3]>>
VSub(a, b) == <<a[1] - b[1], a[2] - b[2], a[3] - b[3]>>
VScale(a, k) == <<a[1] * k, a[2] * k, a[3] * k>>

\* A value the integer grid cannot hold: evaluating it stops the check, so no
\* result below rests on a silently rounded number.
Undefined == CHOOSE x \in {} : TRUE

\* n / k for a k > 0 that divides n
ExactDiv(n, k) == IF k > 0 /\ n % k = 0 THEN n \div k ELSE Undefined
VDiv(a, k) == <<ExactDiv(a[1], k), ExactDiv(a[2], k), ExactDiv(a[3], k)>>
Dot(a, b) == a[1] * b[1] + a[2] * b[2] + a[3] * b[3]

\* ------------------------------------------------------------ body model
\* USER_HEIGHT (1.75 m) in length units; one unit is USER_HEIGHT/1000
USER_HEIGHT == 1000

AnthropometricModel(height_m) ==
    [ height             |-> height_m,
      neck_length        |-> (5 * height_m) \div 100,
      shoulder_width     |-> (25 * height_m) \div 100,
      upper_arm_length   |-> (18 * height_m) \div 100,
      forearm_length     |-> (16 * height_m) \div 100,
      spine_length       |-> (30 * height_m) \div 100,
      upper_spine_length |-> (10 * height_m) \div 100,
      mid_spine_length   |-> (10 * height_m) \div 100,
      lower_spine_length |-> (10 * height_m) \div 100 ]

\* ------------------------------------------------------------ quaternions
QDot(a, b) == a[1] * b[1] + a[2] * b[2] + a[3] * b[3] + a[4] * b[4]
QNeg(q) == [v |-> <<-q.v[1], -q.v[2], -q.v[3], -q.v[4]>>, s |-> q.s]
ZeroNorm(q) == QDot(q.v, q.v) = 0

\* Rotation.from_quat: the quaternion scaled to unit norm (v / |v|), written
\* with the common factor of v removed so that equal quaternions are equal records
QNormalize(q) ==
    LET g == GCD(GCD(q.v[1], q.v[2]), GCD(q.v[3], q.v[4]))
        u == <<q.v[1] \div g, q.v[2] \div g, q.v[3] \div g, q.v[4] \div g>>
    IN  [v |-> u, s |-> QDot(u, u)]

\* Rotation.__mul__ (Hamilton product p * q), on unit quaternions
QMul(p, q) ==
    LET a == p.v
        b == q.v
    IN  QNormalize([v |-> << a[4] * b[1] + a[1] * b[4] + a[2] * b[3] - a[3] * b[2],
                             a[4] * b[2] - a[1] * b[3] + a[2] * b[4] + a[3] * b[1],
                             a[4] * b[3] + a[1] * b[2] - a[2] * b[1] + a[3] * b[4],
                             a[4] * b[4] - a[1] * b[1] - a[2] * b[2] - a[3] * b[3] >>,
                    s |-> p.s * q.s])

\* Rotation.inv
QInv(q) == [v |-> <<-q.v[1], -q.v[2], -q.v[3], q.v[4]>>, s |-> q.s]

\* two unit quaternions that are the same rotation (q and -q)
SameRotation(a, b) == QNormalize(a) = QNormalize(b) \/ QNormalize(a) = QNormalize(QNeg(b))

\* quaternion_to_rotation_matrix: the entries are m[i][j] / s
quaternion_to_rotation_matrix(q) ==
    LET qx == q.v[1]
        qy == q.v[2]
        qz == q.v[3]
        qw == q.v[4]
    IN  [ m |-> << << q.s - 2 * (qy * qy + qz * qz), 2 * (qx * qy - qz * qw), 2 * (qx * qz + qy * qw) >>,
                   << 2 * (qx * qy + qz * qw), q.s - 2 * (qx * qx + qz * qz), 2 * (qy * qz - qx * qw) >>,
                   << 2 * (qx * qz - qy * qw), 2 * (qy * qz + qx * qw), q.s - 2 * (qx * qx + qy * qy) >> >>,
          s |-> q.s ]

Column(rot, j) == <<rot.m[1][j], rot.m[2][j], rot.m[3][j]>>

\* v / np.linalg.norm(v): the unit vector n / d, d the norm of n
Unit(c) == [n |-> c, d |-> ISqrt(Dot(c, c))]

\* pos + unit_vector * length
Offset(pos, u, length) == VAdd(pos, VDiv(VScale(u.n, length), u.d))

\* ------------------------------------------------------------ joint estimation
get_down_vector(head_quat) ==
    LET rot_matrix == quaternion_to_rotation_matrix(head_quat)
    IN  Unit(VScale(Column(rot_matrix, 2), -1))

estimate_neck_position(head_pos, head_quat, body_model) ==
    Offset(head_pos, get_down_vector(head_quat), body_model.neck_length)

\* fault injected for C15: mid_spine measured from the neck
estimate_spine_positions_from_neck(neck_pos, head_quat, body_model) ==
    LET down_vector == get_down_vector(head_quat)
        upper_spine == Offset(neck_pos, down_vector, body_model.upper_spine_length)
        mid_spine == Offset(neck_pos, down_vector, body_model.mid_spine_length)
        lower_spine == Offset(mid_spine, down_vector, body_model.lower_spine_length)
    IN  <<upper_spine, mid_spine, lower_spine>>

estimate_spine_positions(neck_pos, head_quat, body_model) ==
    LET down_vector == get_down_vector(head_quat)
        upper_spine == Offset(neck_pos, down_vector, body_model.upper_spine_length)
        mid_spine == Offset(upper_spine, down_vector, body_model.mid_spine_length)
        lower_spine == Offset(mid_spine, down_vector, body_model.lower_spine_length)
    IN  <<upper_spine, mid_spine, lower_spine>>

\* fault injected for C16: each shoulder a whole shoulder_width from the spine
estimate_shoulder_positions_full_width(upper_spine_pos, head_quat, body_model) ==
    LET rot_matrix == quaternion_to_rotation_matrix(head_quat)
        right_vector == Unit(Column(rot_matrix, 1))
    IN  << Offset(upper_spine_pos, right_vector, -body_model.shoulder_width),
           Offset(upper_spine_pos, right_vector, body_model.shoulder_width) >>

estimate_shoulder_positions(upper_spine_pos, head_quat, body_model) ==
    LET rot_matrix == quaternion_to_rotation_matrix(head_quat)
        right_vector == Unit(Column(rot_matrix, 1))
        half == body_model.shoulder_width \div 2
    IN  << Offset(upper_spine_pos, right_vector, -half),
           Offset(upper_spine_pos, right_vector, half) >>

\* An elbow is shoulder + w / sqrt(d), kept as <<shoulder, w, d>> flattened to
\* seven integers: the direction to the forearm has an irrational norm in general.
Elbow(shoulder_pos, w, d) ==
    <<shoulder_pos[1], shoulder_pos[2], shoulder_pos[3], w[1], w[2], w[3], d>>
ElbowBase(e) == <<e[1], e[2], e[3]>>
ElbowW(e) == <<e[4], e[5], e[6]>>
ElbowD(e) == e[7]

\* distance_to_forearm < 1e-6: one length unit is above 1e-6 m and the squared
\* distance is an integer, so the distance is below the threshold iff it is 0
BelowEpsilon(dist_sq) == dist_sq < 1

\* fault injected for C5: the elbow estimated from the forearm alone, the wrist
\* not tested
estimate_elbow_position_forearm_only(shoulder_pos, forearm_pos, wrist_pos, upper_arm_length) ==
    IF forearm_pos = None
    THEN None
    ELSE LET shoulder_to_forearm == VSub(forearm_pos, shoulder_pos)
             dist_sq == Dot(shoulder_to_forearm, shoulder_to_forearm)
         IN  IF BelowEpsilon(dist_sq)
             THEN Elbow(shoulder_pos, <<0, 0, upper_arm_length>>, 1)
             ELSE Elbow(shoulder_pos, VScale(shoulder_to_forearm, upper_arm_length), dist_sq)

estimate_elbow_position(shoulder_pos, forearm_pos, wrist_pos, upper_arm_length) ==
    IF forearm_pos = None \/ wrist_pos = None
    THEN None
    ELSE LET shoulder_to_forearm == VSub(forearm_pos, shoulder_pos)
             dist_sq == Dot(shoulder_to_forearm, shoulder_to_forearm)
         IN  IF BelowEpsilon(dist_sq)
             THEN Elbow(shoulder_pos, <<0, 0, upper_arm_length>>, 1)
             ELSE Elbow(shoulder_pos, VScale(shoulder_to_forearm, upper_arm_length), dist_sq)

\* ------------------------------------------------------------ skeleton
JointNames ==
    { "head", "neck", "upper_spine", "mid_spine", "lower_spine",
      "left_shoulder", "right_shoulder", "left_elbow", "right_elbow",
      "left_wrist", "right_wrist" }

\* UpperBodySkeleton(): every joint None
UpperBodySkeleton == [j \in JointNames |-> None]

reconstruct_skeleton(head_pos, head_quat, left_wrist, right_wrist, left_forearm, right_forearm, body_model) ==
    LET neck == estimate_neck_position(head_pos, head_quat, body_model)
        spine == estimate_spine_positions(neck, head_quat, body_model)
        shoulders == estimate_shoulder_positions(spine[1], head_quat, body_model)
    IN  [ UpperBodySkeleton EXCEPT
            !["head"] = head_pos,
            !["left_wrist"] = left_wrist,
            !["right_wrist"] = right_wrist,
            !["neck"] = neck,
            !["upper_spine"] = spine[1],
            !["mid_spine"] = spine[2],
            !["lower_spine"] = spine[3],
            !["left_shoulder"] = shoulders[1],
            !["right_shoulder"] = shoulders[2],
            !["left_elbow"] = estimate_elbow_position(
                shoulders[1], left_forearm, left_wrist, body_model.upper_arm_length),
            !["right_elbow"] = estimate_elbow_position(
                shoulders[2], right_forearm, right_wrist, body_model.upper_arm_length) ]

\* ------------------------------------------------------------ input streams
finger_joints ==
    { "thumbKnuckle", "thumbIntermediateBase", "thumbIntermediateTip", "thumbTip",
      "indexFingerMetacarpal", "indexFingerKnuckle", "indexFingerIntermediateBase",
      "indexFingerIntermediateTip", "indexFingerTip",
      "middleFingerMetacarpal", "middleFingerKnuckle", "middleFingerIntermediateBase",
      "middleFingerIntermediateTip", "middleFingerTip",
      "ringFingerMetacarpal", "ringFingerKnuckle", "ringFingerIntermediateBase",
      "ringFingerIntermediateTip", "ringFingerTip",
      "littleFingerMetacarpal", "littleFingerKnuckle", "littleFingerIntermediateBase",
      "littleFingerIntermediateTip", "littleFingerTip" }

\* the landmark columns of hand_pose_world.csv: each landmark of a row is NaN or
\* the seven values <<px, py, pz, qx, qy, qz, qw>>
Landmarks == {"forearmWrist", "forearmArm"} \cup finger_joints
Sides == {"left", "right"}

HandRow(t, side, lm) == [t_mono |-> t, chirality |-> side, lm |-> lm]
DeviceRow(t, p, q) == [t_mono |-> t, p |-> p, q |-> q]

Range(seq) == {seq[i] : i \in 1..Len(seq)}

RECURSIVE SortedSeqOf(_)
SortedSeqOf(S) ==
    IF S = {} THEN <<>>
    ELSE LET m == CHOOSE x \in S : \A y \in S : x <= y
         IN  <<m>> \o SortedSeqOf(S \ {m})

\* ------------------------------------------------------------ load_and_organize_data
\* sorted(hand_data['t_mono'].unique())
all_timestamps(rows) == SortedSeqOf({rows[i].t_mono : i \in 1..Len(rows)})

\* the lookup dictionary of one hand after the first n rows of the iterrows loop:
\* a later row of the same timestamp replaces the earlier one
RECURSIVE hand_dict(_, _, _)
hand_dict(rows, side, n) ==
    IF n = 0 THEN [t \in {} |-> None]
    ELSE LET d == hand_dict(rows, side, n - 1)
             row == rows[n]
         IN  IF row.chirality = side
             THEN [t \in DOMAIN d \cup {row.t_mono} |-> IF t = row.t_mono THEN row ELSE d[t]]
             ELSE d

\* fault injected for C2: a hand without a row at t is given the row of another
\* of its timestamps (a tolerance window)
row_data_window(rows, t) ==
    LET right_hand_dict == hand_dict(rows, "right", Len(rows))
        left_hand_dict == hand_dict(rows, "left", Len(rows))
        pick(d) == IF t \in DOMAIN d THEN <<d[t].lm>>
                   ELSE IF DOMAIN d /= {} THEN <<d[CHOOSE u \in DOMAIN d : TRUE].lm>>
                   ELSE <<>>
    IN  [ t_mono |-> t,
          right |-> pick(right_hand_dict),
          left |-> pick(left_hand_dict) ]

\* row_data of one timestamp: the landmark columns of a hand are added (as
\* <<columns>>) only if the timestamp is in that hand's dictionary, else <<>>
row_data(rows, t) ==
    LET right_hand_dict == hand_dict(rows, "right", Len(rows))
        left_hand_dict == hand_dict(rows, "left", Len(rows))
    IN  [ t_mono |-> t,
          right |-> IF t \in DOMAIN right_hand_dict THEN <<right_hand_dict[t].lm>> ELSE <<>>,
          left |-> IF t \in DOMAIN left_hand_dict THEN <<left_hand_dict[t].lm>> ELSE <<>> ]

organized_data(rows) ==
    LET ts == all_timestamps(rows)
    IN  [i \in 1..Len(ts) |-> row_data(rows, ts[i])]

\* pd.DataFrame(organized_data) has the column '<landmark>_px_<hand>' iff some row
\* dictionary has that key, i.e. iff some frame carries that hand
ColumnInFrame(df, hand) == \E i \in 1..Len(df) : df[i][hand] /= <<>>

\* the value of a landmark column in one row of the frame: NaN where the row
\* dictionary had no such key
Cell(df, i, hand, landmark) ==
    IF df[i][hand] = <<>> THEN NaN ELSE df[i][hand][1][landmark]

\* the summary prints index organized_df by 'forearmWrist_px_right' and
\* 'forearmWrist_px_left': a KeyError when either column does not exist
SummaryRaises(df) == ~ColumnInFrame(df, "right") \/ ~ColumnInFrame(df, "left")

\* ------------------------------------------------------------ interpolate_head_data
Min(S) == CHOOSE x \in S : \A y \in S : x <= y
Max(S) == CHOOSE x \in S : \A y \in S : y <= x

\* fault injected for C7: np.clip with the two bounds exchanged, which is
\* minimum(maximum(t, hi), lo)
ClipSwapped(t, lo, hi) ==
    LET m == IF t > hi THEN t ELSE hi
    IN  IF m < lo THEN m ELSE lo

\* np.clip
Clip(t, lo, hi) == IF t < lo THEN lo ELSE IF t > hi THEN hi ELSE t

StrictlyIncreasing(xs) == \A i \in 1..(Len(xs) - 1) : xs[i] < xs[i + 1]
HasDuplicates(xs) == \E i, j \in 1..Len(xs) : i < j /\ xs[i] = xs[j]

\* interp1d(kind='cubic'): a spline of order 3 needs order + 1 entries, and
\* make_interp_spline rejects repeated x (interp1d sorts x itself)
SplineOrder == 3
\* fault injected for C9: one entry more demanded than the order needs
Interp1dRaisesOneMore(xs) == Len(xs) < SplineOrder + 2 \/ HasDuplicates(xs)

Interp1dRaises(xs) == Len(xs) < SplineOrder + 1 \/ HasDuplicates(xs)

\* the indices of xs in ascending order of x (interp1d's argsort)
ArgSort(xs) == SortSeq([i \in 1..Len(xs) |-> i], LAMBDA i, j : xs[i] < xs[j])

\* The not-a-knot cubic spline through four points is the cubic through them,
\* here in Newton's form on the first four sorted points.  With more than four
\* points the spline is that same cubic when every point lies on it, as do the
\* points of the streams drawn (PathAt is a polynomial of degree 2 in t).
CubicAt(xs, ys, q) ==
    LET o == ArgSort(xs)
        x == [k \in 1..4 |-> xs[o[k]]]
        y == [k \in 1..4 |-> ys[o[k]]]
        d12 == ExactDiv(y[2] - y[1], x[2] - x[1])
        d23 == ExactDiv(y[3] - y[2], x[3] - x[2])
        d34 == ExactDiv(y[4] - y[3], x[4] - x[3])
        d123 == ExactDiv(d23 - d12, x[3] - x[1])
        d234 == ExactDiv(d34 - d23, x[4] - x[2])
        d1234 == ExactDiv(d234 - d123, x[4] - x[1])
    IN  y[1] + d12 * (q - x[1]) + d123 * (q - x[1]) * (q - x[2])
             + d1234 * (q - x[1]) * (q - x[2]) * (q - x[3])

\* interp_func(t) for the three axes
interp_position(rows, t) ==
    LET xs == [i \in 1..Len(rows) |-> rows[i].t_mono]
    IN  << CubicAt(xs, [i \in 1..Len(rows) |-> rows[i].p[1]], t),
           CubicAt(xs, [i \in 1..Len(rows) |-> rows[i].p[2]], t),
           CubicAt(xs, [i \in 1..Len(rows) |-> rows[i].p[3]], t) >>

\* fault injected for C10: Slerp without its test of the order of the times
SlerpRaisesOnLengthOnly(times) == Len(times) < 2

\* Slerp(times, rotations): at least two rotations, times strictly increasing
SlerpRaises(times) == Len(times) < 2 \/ ~StrictlyIncreasing(times)

Identity == [v |-> <<0, 0, 0, 1>>, s |-> 1]

\* (rotations[i].inv() * rotations[i+1]).as_rotvec(): the rotation vector of the
\* quaternion with w >= 0, i.e. of the shorter arc
ShortArc(q) == IF q.v[4] < 0 THEN QNeg(q) ELSE q

\* Rotation.from_rotvec(rotvec * alpha) for alpha = num / den: the identity for
\* alpha = 0 or a zero rotation vector, the rotation itself for alpha = 1
RotvecPower(delta, num, den) ==
    IF num = 0 \/ delta = Identity THEN Identity
    ELSE IF num = den THEN delta
    ELSE Undefined

\* fault injected for C8: the rotation of the interval's start, the fraction of
\* the interval dropped
slerp_previous(times, rotations, t) ==
    LET below == Cardinality({i \in 1..Len(times) : times[i] < t})
        ind == IF t = times[1] THEN 1 ELSE below
    IN  rotations[ind]

\* Slerp.__call__ at one time t inside [times[0], times[-1]]
slerp_interp(times, rotations, t) ==
    LET below == Cardinality({i \in 1..Len(times) : times[i] < t})
        ind == IF t = times[1] THEN 1 ELSE below
        delta == ShortArc(QMul(QInv(rotations[ind]), rotations[ind + 1]))
    IN  QMul(rotations[ind], RotvecPower(delta, t - times[ind], times[ind + 1] - times[ind]))

\* whether interpolate_head_data raises: min() of no row, interp1d, a zero-norm
\* quaternion in Rotation.from_quat, Slerp
InterpolateRaises(rows) ==
    LET head_timestamps == [i \in 1..Len(rows) |-> rows[i].t_mono]
    IN  \/ Len(rows) = 0
        \/ Interp1dRaises(head_timestamps)
        \/ \E i \in 1..Len(rows) : ZeroNorm(rows[i].q)
        \/ SlerpRaises(head_timestamps)

\* hand_timestamps_clipped[i]
clipped(rows, t) ==
    LET head_timestamps == {rows[i].t_mono : i \in 1..Len(rows)}
    IN  Clip(t, Min(head_timestamps), Max(head_timestamps))

\* <<head_positions, head_orientations>>, one entry per hand timestamp
interpolate_head_data(rows, hand_timestamps) ==
    LET head_timestamps == [i \in 1..Len(rows) |-> rows[i].t_mono]
        rotations == [i \in 1..Len(rows) |-> QNormalize(rows[i].q)]
    IN  << [i \in 1..Len(hand_timestamps) |->
               interp_position(rows, clipped(rows, hand_timestamps[i]))],
           [i \in 1..Len(hand_timestamps) |->
               slerp_interp(head_timestamps, rotations, clipped(rows, hand_timestamps[i]))] >>

\* ------------------------------------------------------------ main
\* get_hand_position(row, hand, joint_name) on row i of the organized frame
get_hand_position(df, i, hand, joint_name) ==
    IF ColumnInFrame(df, hand) /\ Cell(df, i, hand, joint_name) /= NaN
    THEN LET c == Cell(df, i, hand, joint_name) IN <<c[1], c[2], c[3]>>
    ELSE None

\* the keys a dictionary holds: a joint that is None adds no key
JointColumns(skeleton) ==
    [j \in {k \in JointNames : skeleton[k] /= None} |-> skeleton[j]]

\* fault injected for C20: the px column of the right hand tested for both hands
FingerColumnsOneSuffix(df, i) ==
    LET present == {k \in Sides \X finger_joints :
                       ColumnInFrame(df, "right") /\ Cell(df, i, "right", k[2]) /= NaN}
    IN  [k \in present |-> Cell(df, i, k[1], k[2])]

\* the finger columns copied from the organized row: the seven values of every
\* finger landmark whose px column exists and is not NaN
FingerColumns(df, i) ==
    LET present == {k \in Sides \X finger_joints :
                       ColumnInFrame(df, k[1]) /\ Cell(df, i, k[1], k[2]) /= NaN}
    IN  [k \in present |-> Cell(df, i, k[1], k[2])]

\* fault injected for C18: a wrist missing from a frame is taken from the frame
\* before it (forward fill)
frame_row_forward_fill(df, positions, orientations, frame_idx, body_model) ==
    LET i == frame_idx + 1
        wrist(hand) ==
            IF get_hand_position(df, i, hand, "forearmWrist") = None /\ i > 1
            THEN get_hand_position(df, i - 1, hand, "forearmWrist")
            ELSE get_hand_position(df, i, hand, "forearmWrist")
        skeleton == reconstruct_skeleton(
                        positions[i], orientations[i], wrist("left"), wrist("right"),
                        get_hand_position(df, i, "left", "forearmArm"),
                        get_hand_position(df, i, "right", "forearmArm"),
                        body_model)
    IN  [ frame |-> frame_idx,
          t_mono |-> df[i].t_mono,
          joints |-> JointColumns(skeleton),
          head_q |-> orientations[i],
          fingers |-> FingerColumns(df, i) ]

\* the row built by one iteration of the frame loop (frame_idx is 0-based)
frame_row(df, positions, orientations, frame_idx, body_model) ==
    LET i == frame_idx + 1
        skeleton == reconstruct_skeleton(
                        positions[i], orientations[i],
                        get_hand_position(df, i, "left", "forearmWrist"),
                        get_hand_position(df, i, "right", "forearmWrist"),
                        get_hand_position(df, i, "left", "forearmArm"),
                        get_hand_position(df, i, "right", "forearmArm"),
                        body_model)
    IN  [ frame |-> frame_idx,
          t_mono |-> df[i].t_mono,
          joints |-> JointColumns(skeleton),
          head_q |-> orientations[i],
          fingers |-> FingerColumns(df, i) ]

\* load_and_organize_data(): returns the organized frame or raises
LoadAndOrganize ==
    /\ pc = "start"
    /\ IF SummaryRaises(organized_data(hand_data))
       THEN /\ pc' = "load_error"
            /\ UNCHANGED organized
       ELSE /\ pc' = "loaded"
            /\ organized' = organized_data(hand_data)
    /\ UNCHANGED <<hand_data, device_data, head_positions, head_orientations, output_data, csv, calc_pc, all_frames_data, args, ret, viewer_df, animator, update_calls>>

\* interpolate_head_data(device_data, hand_timestamps): returns or raises
InterpolateHead ==
    /\ pc = "loaded"
    /\ IF InterpolateRaises(device_data)
       THEN /\ pc' = "interp_error"
            /\ UNCHANGED <<head_positions, head_orientations>>
       ELSE LET r == interpolate_head_data(
                         device_data, [i \in 1..Len(organized) |-> organized[i].t_mono])
            IN  /\ pc' = "frames"
                /\ head_positions' = r[1]
                /\ head_orientations' = r[2]
    /\ UNCHANGED <<hand_data, device_data, organized, output_data, csv, calc_pc, all_frames_data, args, ret, viewer_df, animator, update_calls>>

\* one iteration of "for frame_idx in range(len(hand_timestamps))"
ReconstructFrame ==
    /\ pc = "frames"
    /\ Len(output_data) < Len(organized)
    /\ output_data' = Append(output_data,
                             frame_row(organized, head_positions, head_orientations,
                                       Len(output_data), AnthropometricModel(USER_HEIGHT)))
    /\ UNCHANGED <<hand_data, device_data, pc, organized, head_positions, head_orientations, csv, calc_pc, all_frames_data, args, ret, viewer_df, animator, update_calls>>

\* output_df.to_csv(OUTPUT_PATH) after the loop
WriteOutput ==
    /\ pc = "frames"
    /\ Len(output_data) = Len(organized)
    /\ csv' = output_data
    /\ pc' = "done"
    /\ UNCHANGED <<hand_data, device_data, organized, head_positions, head_orientations, output_data, calc_pc, all_frames_data, args, ret, viewer_df, animator, update_calls>>

Next == LoadAndOrganize \/ InterpolateHead \/ ReconstructFrame \/ WriteOutput

\* the body of the frame loop run as a task of its own, for any frame_idx not
\* processed yet: the rows are appended in the order the tasks finish
ReconstructAnyFrame ==
    /\ pc = "frames"
    /\ \E frame_idx \in 0..(Len(organized) - 1) :
          /\ \A k \in 1..Len(output_data) : output_data[k].frame /= frame_idx
          /\ output_data' = Append(output_data,
                                   frame_row(organized, head_positions, head_orientations,
                                             frame_idx, AnthropometricModel(USER_HEIGHT)))
    /\ UNCHANGED <<hand_data, device_data, pc, organized, head_positions, head_orientations, csv, calc_pc, all_frames_data, args, ret, viewer_df, animator, update_calls>>

\* the rows ordered by their frame index
SortByFrame(rows) ==
    [i \in 1..Len(rows) |-> CHOOSE r \in Range(rows) : r.frame = i - 1]

\* every task has finished: the rows are ordered by frame index and written
CollectByFrame ==
    /\ pc = "frames"
    /\ Len(output_data) = Len(organized)
    /\ csv' = SortByFrame(output_data)
    /\ pc' = "done"
    /\ UNCHANGED <<hand_data, device_data, organized, head_positions, head_orientations, output_data, calc_pc, all_frames_data, args, ret, viewer_df, animator, update_calls>>

NextAnyOrder == LoadAndOrganize \/ InterpolateHead \/ ReconstructAnyFrame \/ CollectByFrame

\* ------------------------------------------------------------ calculate_and_join_skeleton_data.py
\* AnthropometricModel, quaternion_to_rotation_matrix, get_down_vector,
\* estimate_neck_position, estimate_spine_positions and estimate_shoulder_positions
\* of SkeletonCalculator are the functions of calc_body.py above, word for word.

\* SkeletonCalculator.estimate_elbow_position on numpy vectors: no test for a
\* missing landmark and none for a zero distance.  A NaN forearm gives a NaN
\* elbow, a forearm at the shoulder gives 0/0 = NaN, the wrist is not read.
SkeletonCalculator_estimate_elbow_position(shoulder_pos, forearm_pos, wrist_pos, upper_arm_length) ==
    IF forearm_pos = NaN
    THEN NaN
    ELSE LET shoulder_to_forearm == VSub(forearm_pos, shoulder_pos)
             dist_sq == Dot(shoulder_to_forearm, shoulder_to_forearm)
         IN  IF dist_sq = 0
             THEN NaN
             ELSE Elbow(shoulder_pos, VScale(shoulder_to_forearm, upper_arm_length), dist_sq)

CalcJointNames == JointNames \cup {"left_forearm", "right_forearm"}

SkeletonCalculator_reconstruct_skeleton(head_pos, head_quat, left_wrist, right_wrist, left_forearm, right_forearm, body_model) ==
    LET neck == estimate_neck_position(head_pos, head_quat, body_model)
        spine == estimate_spine_positions(neck, head_quat, body_model)
        shoulders == estimate_shoulder_positions(spine[1], head_quat, body_model)
    IN  [ j \in CalcJointNames |->
            CASE j = "head" -> head_pos
              [] j = "left_wrist" -> left_wrist
              [] j = "right_wrist" -> right_wrist
              [] j = "left_forearm" -> left_forearm
              [] j = "right_forearm" -> right_forearm
              [] j = "neck" -> neck
              [] j = "upper_spine" -> spine[1]
              [] j = "mid_spine" -> spine[2]
              [] j = "lower_spine" -> spine[3]
              [] j = "left_shoulder" -> shoulders[1]
              [] j = "right_shoulder" -> shoulders[2]
              [] j = "left_elbow" -> SkeletonCalculator_estimate_elbow_position(
                                         shoulders[1], left_forearm, left_wrist,
                                         body_model.upper_arm_length)
              [] j = "right_elbow" -> SkeletonCalculator_estimate_elbow_position(
                                          shoulders[2], right_forearm, right_wrist,
                                          body_model.upper_arm_length) ]

\* An angle is <<"deg", n>> for a whole number n of degrees, <<"arccos", sgn,
\* num, den>> for the angle in [0, 180] whose cosine has the sign sgn and the
\* square num / den (in lowest terms), and <<"angle_at", p1, p2, p3, "inexact">>
\* where the cosine is not rational; NaN where a norm is 0 or an input is NaN.
ZeroVector == <<0, 0, 0>>

\* v scaled down by the common factor of its components (the direction is kept)
Primitive(v) ==
    LET g == GCD(GCD(v[1], v[2]), v[3])
    IN  <<v[1] \div g, v[2] \div g, v[3] \div g>>

\* np.degrees(np.arccos(cos)) for cos = sgn * sqrt(num / den)
DegreesOfCosine(sgn, num, den) ==
    LET g == GCD(num, den)
        n == num \div g
        d == den \div g
    IN  IF sgn = 0 THEN <<"deg", 90>>
        ELSE IF n = d THEN <<"deg", IF sgn > 0 THEN 0 ELSE 180>>
        ELSE IF 4 * n = 3 * d THEN <<"deg", IF sgn > 0 THEN 30 ELSE 150>>
        ELSE IF 2 * n = d THEN <<"deg", IF sgn > 0 THEN 45 ELSE 135>>
        ELSE IF 4 * n = d THEN <<"deg", IF sgn > 0 THEN 60 ELSE 120>>
        ELSE <<"arccos", sgn, n, d>>

\* fault injected for C21: the cosine taken without its sign
AngleBetweenUnsigned(v1, v2) ==
    IF v1 = ZeroVector \/ v2 = ZeroVector
    THEN NaN
    ELSE LET a == Primitive(v1)
             b == Primitive(v2)
             dot == Dot(a, b)
         IN  DegreesOfCosine(IF dot = 0 THEN 0 ELSE 1, dot * dot, Dot(a, a) * Dot(b, b))

\* the angle between two integer vectors: dot / (|v1| |v2|) is 0/0 = NaN when
\* either is zero; np.clip to [-1, 1] bounds the square of the cosine by 1
AngleBetween(v1, v2) ==
    IF v1 = ZeroVector \/ v2 = ZeroVector
    THEN NaN
    ELSE LET a == Primitive(v1)
             b == Primitive(v2)
             dot == Dot(a, b)
             den == Dot(a, a) * Dot(b, b)
         IN  DegreesOfCosine(IF dot > 0 THEN 1 ELSE IF dot < 0 THEN -1 ELSE 0,
                             IF dot * dot > den THEN den ELSE dot * dot, den)

\* an elbow shoulder + w / sqrt(d) as a point of the grid, where it is one
OnGrid(e) ==
    \E r \in 1..SqrtRange : r * r = ElbowD(e) /\ \A k \in 1..3 : ElbowW(e)[k] % r = 0
ToPoint(p) ==
    IF Len(p) = 7 /\ OnGrid(p)
    THEN VAdd(ElbowBase(p), VDiv(ElbowW(p), ISqrt(ElbowD(p))))
    ELSE p

\* AngleCalculator.calculate_angle_3_points: the angle at p2, in degrees
calculate_angle_3_points(p1, p2, p3) ==
    IF p1 = NaN \/ p2 = NaN \/ p3 = NaN
    THEN NaN
    ELSE LET a == ToPoint(p1)
             b == ToPoint(p2)
             c == ToPoint(p3)
         IN  IF Len(a) = 3 /\ Len(b) = 3 /\ Len(c) = 3
             THEN AngleBetween(VSub(a, b), VSub(c, b))
             ELSE IF Len(a) = 3 /\ Len(b) = 3 /\ ElbowBase(c) = b
             THEN AngleBetween(VSub(a, b), ElbowW(c))
             ELSE <<"angle_at", p1, p2, p3, "inexact">>

\* the five angles in the order calculate_skeleton_angles computes them
AngleSpecs ==
    << <<"left_elbow_angle", "left_shoulder", "left_elbow", "left_wrist">>,
       <<"right_elbow_angle", "right_shoulder", "right_elbow", "right_wrist">>,
       <<"left_shoulder_angle", "upper_spine", "left_shoulder", "left_elbow">>,
       <<"right_shoulder_angle", "upper_spine", "right_shoulder", "right_elbow">>,
       <<"spine_bend_angle", "neck", "mid_spine", "lower_spine">> >>

\* AngleCalculator.calculate_skeleton_angles: an angle is computed when its three
\* keys are in joints; a joint that is None raises (None - array), and the one
\* try/except around all five then returns the angles computed before it
calculate_skeleton_angles(joints) ==
    LET applicable(n) == \A j \in 2..4 : AngleSpecs[n][j] \in DOMAIN joints
        raises(n) == applicable(n) /\ \E j \in 2..4 : joints[AngleSpecs[n][j]] = None
        first == IF \E n \in 1..Len(AngleSpecs) : raises(n)
                 THEN CHOOSE n \in 1..Len(AngleSpecs) :
                          raises(n) /\ \A m \in 1..(n - 1) : ~raises(m)
                 ELSE Len(AngleSpecs) + 1
        computed == {n \in 1..Len(AngleSpecs) : n < first /\ applicable(n)}
    IN  [ name \in {AngleSpecs[n][1] : n \in computed} |->
            LET a == AngleSpecs[CHOOSE n \in computed : AngleSpecs[n][1] = name]
            IN  calculate_angle_3_points(joints[a[2]], joints[a[3]], joints[a[4]]) ]

\* extract_joint_positions(hand_df, joint_name, chirality)[0]: the px, py, pz of
\* the rows of one hand, in file order, a vector of NaN where the landmark is NaN
extract_joint_positions(hand_df, joint_name, chirality) ==
    LET filtered == SelectSeq(hand_df, LAMBDA row : row.chirality = chirality)
    IN  [i \in 1..Len(filtered) |->
            IF filtered[i].lm[joint_name] = NaN THEN NaN
            ELSE <<filtered[i].lm[joint_name][1], filtered[i].lm[joint_name][2],
                   filtered[i].lm[joint_name][3]>>]

\* indexing the arrays of a hand at frame_idx (0-based) raises IndexError when
\* that hand has frame_idx rows or fewer
IndexRaises(hand_df, frame_idx) ==
    \E side \in Sides :
        Len(extract_joint_positions(hand_df, "forearmWrist", side)) <= frame_idx

\* joints of one iteration: the skeleton of head sample frame_idx and of the
\* frame_idx-th row of each hand
frame_joints(hand_df, device_df, frame_idx, body_model) ==
    LET i == frame_idx + 1
    IN  SkeletonCalculator_reconstruct_skeleton(
            device_df[i].p, device_df[i].q,
            extract_joint_positions(hand_df, "forearmWrist", "left")[i],
            extract_joint_positions(hand_df, "forearmWrist", "right")[i],
            extract_joint_positions(hand_df, "forearmArm", "left")[i],
            extract_joint_positions(hand_df, "forearmArm", "right")[i],
            body_model)

\* frame_data of one iteration: a key for every joint that is not None and for
\* every angle computed
calc_frame_data(hand_df, device_df, frame_idx, body_model) ==
    LET joints == frame_joints(hand_df, device_df, frame_idx, body_model)
    IN  [ frame |-> frame_idx,
          t_mono |-> device_df[frame_idx + 1].t_mono,
          joints |-> [j \in {k \in CalcJointNames : joints[k] /= None} |-> joints[j]],
          angles |-> calculate_skeleton_angles(joints) ]

\* one iteration of "for frame_idx in range(len(head_positions))"
CalcFrame ==
    /\ calc_pc = "frames"
    /\ Len(all_frames_data) < Len(device_data)
    /\ IF IndexRaises(hand_data, Len(all_frames_data))
       THEN /\ calc_pc' = "index_error"
            /\ UNCHANGED all_frames_data
       ELSE /\ all_frames_data' = Append(all_frames_data,
                                         calc_frame_data(hand_data, device_data,
                                                         Len(all_frames_data),
                                                         AnthropometricModel(USER_HEIGHT)))
            /\ UNCHANGED calc_pc
    /\ UNCHANGED <<hand_data, device_data, pc, organized, head_positions, head_orientations, output_data, csv, args, ret, viewer_df, animator, update_calls>>

\* df = pd.DataFrame(all_frames_data); return df
CalcReturn ==
    /\ calc_pc = "frames"
    /\ Len(all_frames_data) = Len(device_data)
    /\ calc_pc' = "done"
    /\ UNCHANGED <<hand_data, device_data, pc, organized, head_positions, head_orientations, output_data, csv, all_frames_data, args, ret, viewer_df, animator, update_calls>>

NextCalc == CalcFrame \/ CalcReturn

\* ------------------------------------------------------------ join_datasets
\* the rows of right whose (t_mono, t_wall) is that of the row l, in their order
Matches(l, right) ==
    SelectSeq(right, LAMBDA r : r.t_mono = l.t_mono /\ r.t_wall = l.t_wall)

\* fault injected for C23: an inner join, a row without a match is dropped
MergeRowInner(l, right, field) ==
    LET ms == Matches(l, right)
    IN  [k \in 1..Len(ms) |-> [l EXCEPT ![field] = <<ms[k]>>]]

\* how='left' for one row of the left frame: one output row per matching row of
\* right, with its columns under field, or one row with those columns empty
MergeRow(l, right, field) ==
    LET ms == Matches(l, right)
    IN  IF ms = <<>>
        THEN << [l EXCEPT ![field] = <<>>] >>
        ELSE [k \in 1..Len(ms) |-> [l EXCEPT ![field] = <<ms[k]>>]]

\* left.merge(right, on=['t_mono', 't_wall'], how='left'): the rows of left in
\* their order, n of them merged so far
RECURSIVE MergeUpTo(_, _, _, _)
MergeUpTo(left, right, field, n) ==
    IF n = 0 THEN <<>>
    ELSE MergeUpTo(left, right, field, n - 1) \o MergeRow(left[n], right, field)

merge(left, right, field) == MergeUpTo(left, right, field, Len(left))

\* join_datasets: calculated_data merged with the device rows, then with the
\* left-hand rows, then with the right-hand rows
join_datasets(device_df, hand_df, calculated_data) ==
    LET hand_left == SelectSeq(hand_df, LAMBDA row : row.chirality = "left")
        hand_right == SelectSeq(hand_df, LAMBDA row : row.chirality = "right")
        start == [i \in 1..Len(calculated_data) |->
                     [ frame |-> calculated_data[i].frame,
                       t_mono |-> calculated_data[i].t_mono,
                       t_wall |-> calculated_data[i].t_wall,
                       device |-> <<>>, left |-> <<>>, right |-> <<>> ]]
    IN  merge(merge(merge(start, device_df, "device"), hand_left, "left"), hand_right, "right")

\* calculated_data is pd.DataFrame(all_frames_data): without a frame it has no
\* column, and merging it on t_mono and t_wall raises KeyError
JoinRaises(calculated_data) == Len(calculated_data) = 0

\* join_datasets called on its own: <<joined>> is returned, or it raises
CallJoinDatasets ==
    /\ args /= <<>>
    /\ ret = <<>>
    /\ args[1] = "join_datasets"
    /\ ret' = IF JoinRaises(args[4])
              THEN <<"raised", "KeyError">>
              ELSE <<join_datasets(args[2], args[3], args[4])>>
    /\ UNCHANGED <<hand_data, device_data, pc, organized, head_positions, head_orientations, output_data, csv, calc_pc, all_frames_data, args, viewer_df, animator, update_calls>>

NextJoin == CallJoinDatasets

\* ------------------------------------------------------------ skeleton_viewer.py
\* A row of the viewer's frame maps a joint's name to its <<x, y, z>>, or to NaN
\* where the cells of the row are empty; a name without column is not in it.
SKELETON_CONNECTIONS ==
    << <<"head", "neck">>, <<"neck", "upper_spine">>, <<"upper_spine", "mid_spine">>,
       <<"mid_spine", "lower_spine">>, <<"upper_spine", "left_shoulder">>,
       <<"upper_spine", "right_shoulder">>, <<"left_shoulder", "left_elbow">>,
       <<"left_elbow", "left_wrist">>, <<"right_shoulder", "right_elbow">>,
       <<"right_elbow", "right_wrist">> >>

\* FINGER_JOINTS[hand]: the same five chains for either hand
FINGER_JOINTS ==
    [ thumb |-> <<"thumbKnuckle", "thumbIntermediateBase", "thumbIntermediateTip", "thumbTip">>,
      index |-> <<"indexFingerMetacarpal", "indexFingerKnuckle", "indexFingerIntermediateBase",
                  "indexFingerIntermediateTip", "indexFingerTip">>,
      middle |-> <<"middleFingerMetacarpal", "middleFingerKnuckle", "middleFingerIntermediateBase",
                   "middleFingerIntermediateTip", "middleFingerTip">>,
      ring |-> <<"ringFingerMetacarpal", "ringFingerKnuckle", "ringFingerIntermediateBase",
                 "ringFingerIntermediateTip", "ringFingerTip">>,
      little |-> <<"littleFingerMetacarpal", "littleFingerKnuckle", "littleFingerIntermediateBase",
                   "littleFingerIntermediateTip", "littleFingerTip">> ]

body_joint_names ==
    << "head", "neck", "upper_spine", "mid_spine", "lower_spine", "left_shoulder",
       "right_shoulder", "left_elbow", "right_elbow", "left_wrist", "right_wrist" >>

\* get_joint_position: the position when the x column exists and is not NaN
get_joint_position(row, joint_name) ==
    IF joint_name \in DOMAIN row /\ row[joint_name] /= NaN
    THEN row[joint_name]
    ELSE None

\* fault injected for C24: a line is left as it was when a joint is absent
BoneLineKept(row, start_joint, end_joint, line) ==
    LET start_pos == get_joint_position(row, start_joint)
        end_pos == get_joint_position(row, end_joint)
    IN  IF start_pos /= None /\ end_pos /= None
        THEN <<start_pos, end_pos>>
        ELSE line

\* the data of a bone's line after set_data and set_3d_properties: its two
\* endpoints, or no point
BoneLine(row, start_joint, end_joint, line) ==
    LET start_pos == get_joint_position(row, start_joint)
        end_pos == get_joint_position(row, end_joint)
    IN  IF start_pos /= None /\ end_pos /= None
        THEN <<start_pos, end_pos>>
        ELSE <<>>

\* the offsets of a scatter: the positions of the joints of names that are there
Offsets3d(row, names) ==
    LET there == SelectSeq(names, LAMBDA n : get_joint_position(row, n) /= None)
    IN  [k \in 1..Len(there) |-> get_joint_position(row, there[k])]

\* SkeletonAnimator.__init__: every line and every scatter without a point
NewAnimator ==
    [ body_lines |-> [i \in 1..Len(SKELETON_CONNECTIONS) |-> <<>>],
      body_joints |-> <<>>,
      finger_lines |-> [hand \in Sides |-> [finger \in DOMAIN FINGER_JOINTS |->
                           [i \in 1..(Len(FINGER_JOINTS[finger]) - 1) |-> <<>>]]],
      finger_joints |-> [hand \in Sides |-> [finger \in DOMAIN FINGER_JOINTS |-> <<>>]],
      frame_text |-> <<>> ]

\* SkeletonAnimator.update_frame: the plot elements after the call
update_frame(self, df, frame_idx) ==
    LET row == df[frame_idx + 1]
    IN  [ body_lines |->
              [i \in 1..Len(SKELETON_CONNECTIONS) |->
                  BoneLine(row, SKELETON_CONNECTIONS[i][1], SKELETON_CONNECTIONS[i][2],
                           self.body_lines[i])],
          body_joints |-> Offsets3d(row, body_joint_names),
          finger_lines |->
              [hand \in Sides |-> [finger \in DOMAIN FINGER_JOINTS |->
                  [i \in 1..(Len(FINGER_JOINTS[finger]) - 1) |->
                      BoneLine(row, hand \o "_" \o FINGER_JOINTS[finger][i],
                               hand \o "_" \o FINGER_JOINTS[finger][i + 1],
                               self.finger_lines[hand][finger][i])]]],
          finger_joints |->
              [hand \in Sides |-> [finger \in DOMAIN FINGER_JOINTS |->
                  Offsets3d(row, [i \in 1..Len(FINGER_JOINTS[finger]) |->
                                     hand \o "_" \o FINGER_JOINTS[finger][i]])]],
          frame_text |-> <<frame_idx, Len(df)>> ]

\* update_frame(frame_idx) called for any frame of the viewer
UpdateFrame ==
    /\ viewer_df /= <<>>
    /\ Len(update_calls) < MaxUpdateCalls
    /\ \E frame_idx \in 0..(Len(viewer_df) - 1) :
          /\ animator' = update_frame(animator, viewer_df, frame_idx)
          /\ update_calls' = Append(update_calls, frame_idx)
    /\ UNCHANGED <<hand_data, device_data, pc, organized, head_positions, head_orientations, output_data, csv, calc_pc, all_frames_data, args, ret, viewer_df>>

NextViewer == UpdateFrame

\* AngleCalculator.calculate_angle_3_points called on its own
CallAngle3Points ==
    /\ args /= <<>>
    /\ ret = <<>>
    /\ args[1] = "calculate_angle_3_points"
    /\ ret' = <<calculate_angle_3_points(args[2], args[3], args[4])>>
    /\ UNCHANGED <<hand_data, device_data, pc, organized, head_positions, head_orientations, output_data, csv, calc_pc, all_frames_data, args, viewer_df, animator, update_calls>>

NextAngle == CallAngle3Points

\* AngleCalculator.calculate_skeleton_angles called on its own
CallSkeletonAngles ==
    /\ args /= <<>>
    /\ ret = <<>>
    /\ args[1] = "calculate_skeleton_angles"
    /\ ret' = <<calculate_skeleton_angles(args[2])>>
    /\ UNCHANGED <<hand_data, device_data, pc, organized, head_positions, head_orientations, output_data, csv, calc_pc, all_frames_data, args, viewer_df, animator, update_calls>>

NextAngles == CallSkeletonAngles

\* ------------------------------------------------------------ inputs drawn
SeqsUpTo(S, n) == UNION {[1..k -> S] : k \in 0..n}

Lmk(p) == <<p[1], p[2], p[3], 0, 0, 0, 1>>

\* a hand row's landmark columns: the wrist, the forearm, and every finger alike
MkLm(wrist, forearm, finger) ==
    [l \in Landmarks |-> IF l = "forearmWrist" THEN wrist
                         ELSE IF l = "forearmArm" THEN forearm ELSE finger]

\* a head path <<p0, v, a>>: the position p0 + v t + a t^2 at time t
PathAt(path, t) == VAdd(VAdd(path[1], VScale(path[2], t)), VScale(path[3], t * t))

Still == << <<0, 0, 0>>, <<0, 0, 0>>, <<0, 0, 0>> >>
Line == << <<0, 0, 0>>, <<0, 0, 10>>, <<0, 0, 0>> >>
Curve == << <<10, 0, 0>>, <<0, 5, 0>>, <<0, 0, 2>> >>

Tilt == [v |-> <<0, 0, 1, 2>>, s |-> 5]
Zero == [v |-> <<0, 0, 0, 0>>, s |-> 1]

\* the orientation of sample i under a profile: level and tilt are constant,
\* turn and flip change between the first two samples, zero has a zero quaternion
ProfileAt(profile, i) ==
    CASE profile = "level" -> Identity
      [] profile = "tilt" -> Tilt
      [] profile = "turn" -> IF i = 1 THEN Identity ELSE Tilt
      [] profile = "flip" -> IF i = 1 THEN Identity ELSE QNeg(Tilt)
      [] profile = "zero" -> IF i = 1 THEN Zero ELSE Identity

MkHead(ts, path, profile) ==
    [i \in 1..Len(ts) |-> DeviceRow(ts[i], PathAt(path, ts[i]), ProfileAt(profile, i))]

\* a head stream of four samples at 0, 1, 2, 3
GoodHead(path, profile) == MkHead(<<0, 1, 2, 3>>, path, profile)

\* hand streams of at most MaxHandRows rows over the timestamps 1..MaxHandT, in
\* any order: a left row carries wrist, forearm and fingers or the wrist alone,
\* a right row the wrist alone
WristOnly == MkLm(Lmk(<<150, -250, 40>>), NaN, NaN)

HandPayloads ==
    { MkLm(Lmk(<<-150, -250, 40>>), Lmk(<<-125, -150, -100>>), Lmk(<<-160, -260, 50>>)),
      WristOnly }

HandRows ==
    {HandRow(t, "left", lm) : t \in 1..MaxHandT, lm \in HandPayloads}
        \cup {HandRow(t, "right", WristOnly) : t \in 1..MaxHandT}

InitHands ==
    /\ hand_data \in SeqsUpTo(HandRows, MaxHandRows)
    /\ device_data = GoodHead(Line, "level")

\* head streams of at most MaxHead samples over the timestamps 0..MaxT, in any
\* order.  A stream that interpolates (SplineOrder + 1 samples or more, strictly
\* increasing) is drawn with every path and every profile; turn and flip only
\* with the first two samples one tick apart, so that no hand timestamp falls
\* strictly inside an interval whose end orientations differ.
Interpolable(ts) == Len(ts) >= SplineOrder + 1 /\ StrictlyIncreasing(ts)

HeadStreams ==
    {MkHead(ts, Line, "level") : ts \in SeqsUpTo(0..MaxT, MaxHead)}
    \cup {MkHead(x[1], x[2], x[3]) :
            x \in {y \in {ts \in SeqsUpTo(0..MaxT, MaxHead) : Interpolable(ts)}
                         \X {Still, Line, Curve}
                         \X {"level", "tilt", "turn", "flip", "zero"} :
                      y[3] \in {"turn", "flip"} => y[1][2] = y[1][1] + 1}}

\* a hand stream with one wrist-only row at every timestamp 0..MaxT, the left
\* hand at the even and the right hand at the odd ones
FullHand ==
    [i \in 1..(MaxT + 1) |->
        HandRow(i - 1, IF (i - 1) % 2 = 0 THEN "left" ELSE "right", WristOnly)]

InitHeads ==
    /\ hand_data = FullHand
    /\ device_data \in HeadStreams

\* one left and one right row, at the same or at different timestamps, each with
\* or without a wrist, and with no forearm landmark, one at the left or at the
\* right shoulder of a level head at the origin, or one elsewhere
GeomPayloads ==
    {MkLm(w, f, NaN) :
        w \in {NaN, Lmk(<<-150, -250, 40>>)},
        f \in {NaN, Lmk(<<-125, -150, 0>>), Lmk(<<125, -150, 0>>), Lmk(<<-125, -150, -100>>)}}

InitGeom ==
    /\ hand_data \in {<<HandRow(1, "left", pl), HandRow(t, "right", pr)>> :
                         pl \in GeomPayloads, pr \in GeomPayloads, t \in {1, 2}}
    /\ device_data \in {GoodHead(path, profile) :
                          path \in {Still, Line}, profile \in {"level", "tilt"}}

Inputs == InitHands \/ InitHeads \/ InitGeom

\* no viewer is open
NoViewer ==
    /\ viewer_df = <<>>
    /\ animator = <<>>
    /\ update_calls = <<>>

\* the start of main() in calc_body.py: nothing loaded, nothing written
Start ==
    /\ NoViewer
    /\ pc = "start"
    /\ organized = <<>>
    /\ head_positions = <<>>
    /\ head_orientations = <<>>
    /\ output_data = <<>>
    /\ csv = <<>>
    /\ calc_pc = "idle"
    /\ all_frames_data = <<>>
    /\ args = <<>>
    /\ ret = <<>>

\* calc_body.py is run
Init == Inputs /\ Start

\* calc_body.py is run with the frames of its loop taken in any order
InitAnyOrder == (InitHands \/ InitGeom) /\ Start

\* calculate_and_join_skeleton_data.py is run on the same streams
InitCalc ==
    /\ NoViewer
    /\ Inputs
    /\ pc = "idle"
    /\ organized = <<>>
    /\ head_positions = <<>>
    /\ head_orientations = <<>>
    /\ output_data = <<>>
    /\ csv = <<>>
    /\ calc_pc = "frames"
    /\ all_frames_data = <<>>
    /\ args = <<>>
    /\ ret = <<>>

\* no pipeline is run: a function is called on its own
NoRun ==
    /\ hand_data = <<>>
    /\ device_data = <<>>
    /\ pc = "idle"
    /\ organized = <<>>
    /\ head_positions = <<>>
    /\ head_orientations = <<>>
    /\ output_data = <<>>
    /\ csv = <<>>
    /\ calc_pc = "idle"
    /\ all_frames_data = <<>>
    /\ ret = <<>>

\* the points with whole coordinates in -MaxCoord..MaxCoord
GridPoints == {<<x, y, z>> : x \in -MaxCoord..MaxCoord, y \in -MaxCoord..MaxCoord, z \in -MaxCoord..MaxCoord}

\* calculate_angle_3_points on any three such points, the vertex one of three
InitAngle ==
    /\ NoViewer
    /\ NoRun
    /\ args \in {<<"calculate_angle_3_points", p1, p2, p3>> :
                    p1 \in GridPoints \cup {NaN},
                    p2 \in {ZeroVector, <<1, 0, 0>>, <<-1, 1, 0>>},
                    p3 \in GridPoints \cup {NaN}}

\* the joints of a level head at the origin with both hands tracked
BaseJoints ==
    SkeletonCalculator_reconstruct_skeleton(
        ZeroVector, Identity, <<-150, -250, 40>>, <<150, -250, 40>>,
        <<-125, -150, -100>>, <<125, -150, -100>>, AnthropometricModel(USER_HEIGHT))

\* the joints whose key may be missing from the dictionary, or be None in it
VariedJoints == {"left_elbow", "right_wrist", "right_shoulder", "upper_spine", "neck"}

\* calculate_skeleton_angles on such a dictionary
InitAngles ==
    /\ NoViewer
    /\ NoRun
    /\ args \in {<<"calculate_skeleton_angles",
                   [j \in CalcJointNames \ missing |->
                       IF j \in none THEN None ELSE BaseJoints[j]]>> :
                    missing \in SUBSET VariedJoints, none \in SUBSET VariedJoints}

\* device streams of at most MaxJoinRows rows with t_mono in 1..MaxHandT and one
\* of two t_wall, hand streams of at most MaxJoinRows rows of either side with
\* t_mono in 1..MaxHandT; a row's id is its place in its file
JoinDeviceStreams ==
    {[i \in 1..Len(ks) |-> [t_mono |-> ks[i][1], t_wall |-> ks[i][2], id |-> i]] :
        ks \in SeqsUpTo((1..MaxHandT) \X {0, 1}, MaxJoinRows)}

JoinHandStreams ==
    {[i \in 1..Len(ks) |-> [t_mono |-> ks[i][1], t_wall |-> 0, chirality |-> ks[i][2], id |-> i]] :
        ks \in SeqsUpTo((1..MaxHandT) \X Sides, MaxJoinRows)}

\* the calculated data of a device stream: frame i holds the t_mono and the
\* t_wall of device row i
CalculatedOf(device_df) ==
    [i \in 1..Len(device_df) |->
        [frame |-> i - 1, t_mono |-> device_df[i].t_mono, t_wall |-> device_df[i].t_wall]]

\* join_datasets on such streams
InitJoin ==
    /\ NoViewer
    /\ NoRun
    /\ args \in {<<"join_datasets", d, h, CalculatedOf(d)>> :
                    d \in JoinDeviceStreams, h \in JoinHandStreams}

\* rows of complete_skeleton_data.csv as the viewer reads them.  Joint number k
\* of body_joint_names is at <<k, v, 0>> in a row of variant v, joint number k of
\* the left index finger at <<k, v, 1>>.  Variant 1 has every body joint and no
\* finger; 2 has no left elbow and the whole left index finger; 3 has the
\* joints that need no hand, an empty right wrist, and the left index finger
\* without its knuckle; 4 has every body joint and the whole left index finger.
ViewerRow(v) ==
    LET body == {body_joint_names[k] : k \in 1..Len(body_joint_names)}
        chain == FINGER_JOINTS["index"]
        finger == {"left_" \o chain[k] : k \in 1..Len(chain)}
        names == CASE v = 1 -> body
                   [] v = 2 -> (body \ {"left_elbow"}) \cup finger
                   [] v = 3 -> (body \ {"left_elbow", "right_elbow", "left_wrist"})
                                   \cup (finger \ {"left_indexFingerKnuckle"})
                   [] OTHER -> body \cup finger
    IN  [n \in names |->
            IF v = 3 /\ n = "right_wrist" THEN NaN
            ELSE IF n \in body
            THEN <<CHOOSE k \in 1..Len(body_joint_names) : body_joint_names[k] = n, v, 0>>
            ELSE <<CHOOSE k \in 1..Len(chain) : "left_" \o chain[k] = n, v, 1>>]

\* a viewer opened on one to MaxViewerFrames such rows
InitViewer ==
    /\ NoRun
    /\ args = <<>>
    /\ viewer_df \in (SeqsUpTo({ViewerRow(v) : v \in 1..4}, MaxViewerFrames) \ {<<>>})
    /\ animator = NewAnimator
    /\ update_calls = <<>>

Spec == Init /\ [][Next]_vars

SpecAnyOrder == InitAnyOrder /\ [][NextAnyOrder]_vars

SpecJoin == InitJoin /\ [][NextJoin]_vars

SpecViewer == InitViewer /\ [][NextViewer]_vars

SpecAngle == InitAngle /\ [][NextAngle]_vars

SpecAngles == InitAngles /\ [][NextAngles]_vars

SpecCalc == InitCalc /\ [][NextCalc]_vars

\* ------------------------------------------------------------ claims
\* how far main() has come
LoadCalled == pc \in {"loaded", "load_error", "interp_error", "frames", "done"}
InterpolateCalled == pc \in {"interp_error", "frames", "done"}
InterpolateReturned == pc \in {"frames", "done"}
RunEnded == pc \in {"done", "load_error", "interp_error"}

SideTimestamps(rows, side) ==
    {rows[k].t_mono : k \in {n \in 1..Len(rows) : rows[n].chirality = side}}
Timestamps(df) == [i \in 1..Len(df) |-> df[i].t_mono]
HeadTimes(rows) == [i \in 1..Len(rows) |-> rows[i].t_mono]
Rotations(rows) == [i \in 1..Len(rows) |-> QNormalize(rows[i].q)]

JointOf(side, part) == side \o "_" \o part
Present(v) == v /= None /\ v /= NaN
CoreJoints ==
    { "head", "neck", "upper_spine", "mid_spine", "lower_spine",
      "left_shoulder", "right_shoulder" }

\* C1, as the specification states it: once load_and_organize_data has run on a
\* hand stream, the frames it emitted carry, in ascending order and each once,
\* exactly the timestamps of the left rows and of the right rows.
C1_FramesCarryUnionOfTimestamps ==
    LoadCalled =>
        Timestamps(organized) =
            SortedSeqOf(SideTimestamps(hand_data, "left") \cup SideTimestamps(hand_data, "right"))

\* C2: in every frame emitted by load_and_organize_data, a side's landmark data
\* is present iff the hand stream has a row of that side at exactly the frame's
\* timestamp, and the data present is that of such a row.
C2_SidePresentIffRowAtTimestamp ==
    \A i \in 1..Len(organized) : \A side \in Sides :
        LET at == {k \in 1..Len(hand_data) :
                      hand_data[k].chirality = side /\ hand_data[k].t_mono = organized[i].t_mono}
        IN  /\ organized[i][side] /= <<>> <=> at /= {}
            /\ organized[i][side] /= <<>> =>
                   \E k \in at : organized[i][side][1] = hand_data[k].lm

\* C2's case: a frame without the left hand although the left hand has rows, at
\* other timestamps and with other landmark data than the right hand's
C2_FrameWithOneSide ==
    /\ pc = "loaded"
    /\ \E i \in 1..Len(organized) :
           /\ organized[i].left = <<>>
           /\ organized[i].right /= <<>>
           /\ \E k \in 1..Len(hand_data) :
                  /\ hand_data[k].chirality = "left"
                  /\ <<hand_data[k].lm>> /= organized[i].right

\* C3, as the specification states it: a run on a head stream that interpolates
\* ends with exactly one output record written for every distinct hand timestamp.
C3_OneRecordPerHandTimestamp ==
    (RunEnded /\ ~InterpolateRaises(device_data)) =>
        /\ Len(csv) = Cardinality({hand_data[k].t_mono : k \in 1..Len(hand_data)})
        /\ \A k \in 1..Len(hand_data) :
               Cardinality({i \in 1..Len(csv) : csv[i].t_mono = hand_data[k].t_mono}) = 1

\* C4, as the specification states it, of SkeletonCalculator.reconstruct_skeleton:
\* in every frame a side has an elbow iff its forearm and its wrist are both
\* present in the input of the frame.
C4_ElbowIffForearmAndWrist ==
    \A i \in 1..Len(all_frames_data) : \A side \in Sides :
        LET joints == all_frames_data[i].joints
        IN  Present(joints[JointOf(side, "elbow")])
                <=> (Present(joints[JointOf(side, "forearm")])
                        /\ Present(joints[JointOf(side, "wrist")]))

\* the landmark position main() reads for frame i (1-based)
LandmarkOf(i, side, name) == get_hand_position(organized, i, side, name)

\* C5, amended: if a side's forearm or wrist landmark is absent at a timestamp,
\* the output record has no elbow for that side; it has that side's wrist iff the
\* wrist landmark itself is present, with the landmark's position; and head,
\* neck, the three spine joints and both shoulders are all populated.
C5_NoElbowWristPassedThrough ==
    \A i \in 1..Len(output_data) : \A side \in Sides :
        (LandmarkOf(i, side, "forearmArm") = None \/ LandmarkOf(i, side, "forearmWrist") = None) =>
            LET joints == output_data[i].joints
                wrist == LandmarkOf(i, side, "forearmWrist")
            IN  /\ JointOf(side, "elbow") \notin DOMAIN joints
                /\ JointOf(side, "wrist") \in DOMAIN joints <=> wrist /= None
                /\ wrist /= None => joints[JointOf(side, "wrist")] = wrist
                /\ CoreJoints \subseteq DOMAIN joints

\* C5's case: a record of a frame whose forearm landmark is absent and whose
\* wrist landmark is present, and one of a frame with neither
C5_WristWithoutForearm ==
    \E i \in 1..Len(output_data) : \E side \in Sides :
        /\ LandmarkOf(i, side, "forearmArm") = None
        /\ LandmarkOf(i, side, "forearmWrist") /= None
        /\ JointOf(side, "wrist") \in DOMAIN output_data[i].joints

\* C5, as the specification states it: with the forearm or the wrist landmark
\* absent the record has neither elbow nor wrist for that side, and the head,
\* neck, spine and shoulder joints are populated.
C5_NoElbowNoWrist ==
    \A i \in 1..Len(output_data) : \A side \in Sides :
        (LandmarkOf(i, side, "forearmArm") = None \/ LandmarkOf(i, side, "forearmWrist") = None) =>
            /\ JointOf(side, "elbow") \notin DOMAIN output_data[i].joints
            /\ JointOf(side, "wrist") \notin DOMAIN output_data[i].joints
            /\ CoreJoints \subseteq DOMAIN output_data[i].joints

\* |e - shoulder| = length for an elbow e = shoulder + w / sqrt(d): w.w = length^2 d,
\* tested as (w / length).(w / length) = d to stay within the integer width
AtDistance(e, shoulder, length) ==
    /\ Len(e) = 7
    /\ ElbowBase(e) = shoulder
    /\ \A k \in 1..3 : ElbowW(e)[k] % length = 0
    /\ Dot(VDiv(ElbowW(e), length), VDiv(ElbowW(e), length)) = ElbowD(e)

\* C6, as the specification states it, of SkeletonCalculator.estimate_elbow_position:
\* for every position of a forearm landmark, one at the shoulder included, the
\* elbow computed lies at upper_arm_length from the shoulder.
C6_ElbowAtUpperArmLength ==
    \A i \in 1..Len(all_frames_data) : \A side \in Sides :
        LET joints == all_frames_data[i].joints
        IN  Present(joints[JointOf(side, "forearm")]) =>
                AtDistance(joints[JointOf(side, "elbow")], joints[JointOf(side, "shoulder")],
                           AnthropometricModel(USER_HEIGHT).upper_arm_length)

\* C7: for every query timestamp below the smallest or above the largest head
\* timestamp, interpolate_head_data returns the position and the orientation it
\* gives for that boundary timestamp itself (nothing is extrapolated).
C7_OutOfRangeClampedToBoundary ==
    InterpolateReturned =>
        LET times == HeadTimes(device_data)
            lo == Min(Range(times))
            hi == Max(Range(times))
        IN  \A i \in 1..Len(organized) :
                /\ organized[i].t_mono < lo =>
                       /\ head_positions[i] = interp_position(device_data, lo)
                       /\ head_orientations[i] = slerp_interp(times, Rotations(device_data), lo)
                /\ organized[i].t_mono > hi =>
                       /\ head_positions[i] = interp_position(device_data, hi)
                       /\ head_orientations[i] = slerp_interp(times, Rotations(device_data), hi)

\* C7's case: a query above the largest head timestamp, on a head that moves
C7_QueryAboveRange ==
    /\ InterpolateReturned
    /\ \E i \in 1..Len(organized) :
           /\ organized[i].t_mono > Max(Range(HeadTimes(device_data)))
           /\ head_positions[i] /= head_positions[1]

\* C8: for every query timestamp equal to the timestamp of a head sample,
\* interpolate_head_data returns that sample's position and that sample's
\* orientation (the sample's rotation: its unit quaternion or the negative of it).
C8_SampleTimestampReturnsSample ==
    InterpolateReturned =>
        \A i \in 1..Len(organized) : \A k \in 1..Len(device_data) :
            organized[i].t_mono = device_data[k].t_mono =>
                /\ head_positions[i] = device_data[k].p
                /\ SameRotation(head_orientations[i], device_data[k].q)

\* C8's case: a query at the timestamp of a sample past the first, whose
\* orientation differs from the one before it and comes back negated
C8_QueryAtTurnedSample ==
    /\ InterpolateReturned
    /\ \E i \in 1..Len(organized) : \E k \in 2..Len(device_data) :
           /\ organized[i].t_mono = device_data[k].t_mono
           /\ device_data[k].q /= device_data[k - 1].q
           /\ head_orientations[i] = QNeg(QNormalize(device_data[k].q))

\* the head moves at constant velocity: every sample lies on the line through
\* the first two
ConstantVelocity(rows) ==
    \A k \in 1..Len(rows) :
        VScale(VSub(rows[k].p, rows[1].p), rows[2].t_mono - rows[1].t_mono)
            = VScale(VSub(rows[2].p, rows[1].p), rows[k].t_mono - rows[1].t_mono)

\* the position is the linear interpolation of samples k and k + 1 at time t
LinearBetween(rows, k, t, pos) ==
    VScale(VSub(pos, rows[k].p), rows[k + 1].t_mono - rows[k].t_mono)
        = VScale(VSub(rows[k + 1].p, rows[k].p), t - rows[k].t_mono)

InDegreeRange(a) ==
    \/ Len(a) = 2 /\ a[1] = "deg" /\ 0 <= a[2] /\ a[2] <= 180
    \/ Len(a) = 4 /\ a[1] = "arccos" /\ a[2] \in {-1, 1} /\ 0 < a[3] /\ a[3] < a[4]

\* the cross product: zero iff the two vectors are parallel
Cross(a, b) ==
    <<a[2] * b[3] - a[3] * b[2], a[3] * b[1] - a[1] * b[3], a[1] * b[2] - a[2] * b[1]>>

\* C11: calculate_angle_3_points on three points with numeric coordinates
\* always returns a value in [0, 180]: 0 when p1 = p2 differs from the vertex,
\* 180 when p1 and p2 lie in opposite directions from the vertex.
C11_AngleAlwaysInRange ==
    (ret /= <<>> /\ args[1] = "calculate_angle_3_points"
        /\ args[2] /= NaN /\ args[3] /= NaN /\ args[4] /= NaN) =>
        LET v1 == VSub(args[2], args[3])
            v2 == VSub(args[4], args[3])
        IN  /\ InDegreeRange(ret[1])
            /\ (args[2] = args[4] /\ v1 /= ZeroVector) => ret[1] = <<"deg", 0>>
            /\ (Cross(v1, v2) = ZeroVector /\ Dot(v1, v2) < 0) => ret[1] = <<"deg", 180>>

\* the three joints angle n is defined on all have a position in joints
JointsExist(joints, n) ==
    \A j \in 2..4 : AngleSpecs[n][j] \in DOMAIN joints /\ Present(joints[AngleSpecs[n][j]])

\* C12: whichever angle failed, calculate_skeleton_angles returns every angle
\* whose three joints exist.
C12_OtherAnglesSurviveFailure ==
    (ret /= <<>> /\ args[1] = "calculate_skeleton_angles") =>
        \A n \in 1..Len(AngleSpecs) :
            JointsExist(args[2], n) => AngleSpecs[n][1] \in DOMAIN ret[1]

\* C13: an angle appears in a frame's angle set only if all three joints it is
\* defined on have a position.
C13_AngleOnlyFromExistingJoints ==
    \A i \in 1..Len(all_frames_data) :
        \A n \in 1..Len(AngleSpecs) :
            AngleSpecs[n][1] \in DOMAIN all_frames_data[i].angles =>
                JointsExist(all_frames_data[i].joints, n)

\* C14: a frame's record holds the coordinates of a joint if and only if that
\* joint has a position; a joint without one has no entry at all.
C14_JointEntryIffPosition ==
    \A i \in 1..Len(all_frames_data) :
        LET joints == frame_joints(hand_data, device_data, i - 1, AnthropometricModel(USER_HEIGHT))
        IN  \A j \in CalcJointNames :
                j \in DOMAIN all_frames_data[i].joints <=> Present(joints[j])

\* the spine chain in the order it hangs from the head, each joint with the
\* body-model length that separates it from the one before
SpineChain(body_model) ==
    << <<"head", 0>>, <<"neck", body_model.neck_length>>,
       <<"upper_spine", body_model.upper_spine_length>>,
       <<"mid_spine", body_model.mid_spine_length>>,
       <<"lower_spine", body_model.lower_spine_length>> >>

\* b lies at the distance length from a, in the direction of the unit vector u
StepAlong(a, b, u, length) ==
    /\ length > 0
    /\ VScale(VSub(b, a), u.d) = VScale(u.n, length)
    /\ Dot(VSub(b, a), VSub(b, a)) = length * length

\* the five joints of a record are there and hang on the ray from the head
\* along the down vector of head_quat
OnSpineRay(joints, head_quat, body_model) ==
    LET chain == SpineChain(body_model)
    IN  \A k \in 2..Len(chain) :
            /\ chain[k][1] \in DOMAIN joints
            /\ StepAlong(joints[chain[k - 1][1]], joints[chain[k][1]],
                         get_down_vector(head_quat), chain[k][2])

\* C15: in every frame of either program, head, neck, upper_spine, mid_spine
\* and lower_spine lie in that order on the ray from the head along the head's
\* local down vector, at the successive distances neck_length,
\* upper_spine_length, mid_spine_length and lower_spine_length, all positive.
C15_SpineOnDownRay ==
    /\ \A i \in 1..Len(output_data) :
           OnSpineRay(output_data[i].joints, head_orientations[i], AnthropometricModel(USER_HEIGHT))
    /\ \A i \in 1..Len(all_frames_data) :
           OnSpineRay(all_frames_data[i].joints, device_data[i].q, AnthropometricModel(USER_HEIGHT))

\* C15's case: a frame written for a head that is tilted and away from the origin
C15_FrameWithTiltedHead ==
    \E i \in 1..Len(output_data) :
        /\ ~SameRotation(head_orientations[i], Identity)
        /\ output_data[i].joints["head"] /= ZeroVector
        /\ "lower_spine" \in DOMAIN output_data[i].joints

\* the head's local right axis: the first column of its rotation matrix
RightAxis(head_quat) == Unit(Column(quaternion_to_rotation_matrix(head_quat), 1))

\* upper_spine is the midpoint of the two shoulders, which lie on the right axis
\* of head_quat through it, the left one on the negative side, shoulder_width apart
ShouldersAcrossSpine(joints, head_quat, body_model) ==
    LET l == joints["left_shoulder"]
        r == joints["right_shoulder"]
        u == RightAxis(head_quat)
    IN  /\ VAdd(l, r) = VScale(joints["upper_spine"], 2)
        /\ VScale(VSub(r, l), u.d) = VScale(u.n, body_model.shoulder_width)
        /\ Dot(VSub(l, joints["upper_spine"]), u.n) < 0
        /\ Dot(VSub(r, joints["upper_spine"]), u.n) > 0
        /\ Dot(VSub(r, l), VSub(r, l)) = body_model.shoulder_width * body_model.shoulder_width

\* C16: in every frame of either program, upper_spine is the midpoint of
\* left_shoulder and right_shoulder, both lie on the head's local right axis
\* through upper_spine (left negative, right positive), and they are exactly
\* shoulder_width apart.
C16_ShouldersAcrossSpine ==
    /\ \A i \in 1..Len(output_data) :
           ShouldersAcrossSpine(output_data[i].joints, head_orientations[i], AnthropometricModel(USER_HEIGHT))
    /\ \A i \in 1..Len(all_frames_data) :
           ShouldersAcrossSpine(all_frames_data[i].joints, device_data[i].q, AnthropometricModel(USER_HEIGHT))

\* C16's case: a frame written for a tilted head, whose right axis is not the
\* world's x axis
C16_ShouldersOfTiltedHead ==
    \E i \in 1..Len(output_data) :
        /\ RightAxis(head_orientations[i]).n[2] /= 0
        /\ "left_shoulder" \in DOMAIN output_data[i].joints
        /\ "right_shoulder" \in DOMAIN output_data[i].joints

\* C17: missing hand data never raises out of a frame: the batch is not ended
\* by an exception, and every frame processed holds the joints that need no hand.
C17_MissingHandDataNeverAborts ==
    /\ calc_pc /= "index_error"
    /\ \A i \in 1..Len(all_frames_data) : CoreJoints \subseteq DOMAIN all_frames_data[i].joints

\* the record of frame i computed from that frame alone: a batch of one frame
\* holding its organized row and its head pose, renumbered to i
RecordOfFrameAlone(i) ==
    [ frame_row(<<organized[i]>>, <<head_positions[i]>>, <<head_orientations[i]>>,
                0, AnthropometricModel(USER_HEIGHT))
      EXCEPT !.frame = i - 1 ]

\* C18: with the frames processed in any order, every record is the one its own
\* head pose, hand row and body model give, the records ordered by frame index
\* are exactly those of the sequential loop, and no input has changed.
C18_FramesIndependent ==
    /\ \A k \in 1..Len(output_data) :
           output_data[k] = RecordOfFrameAlone(output_data[k].frame + 1)
    /\ pc = "done" =>
           csv = [i \in 1..Len(organized) |->
                     frame_row(organized, head_positions, head_orientations, i - 1,
                               AnthropometricModel(USER_HEIGHT))]
    /\ pc \in {"frames", "done"} =>
           /\ organized = organized_data(hand_data)
           /\ <<head_positions, head_orientations>> =
                  interpolate_head_data(device_data,
                                        [i \in 1..Len(organized) |-> organized[i].t_mono])

\* C18's case: a run that finished with a later frame processed before an
\* earlier one, the two frames holding different hands
C18_FinishedOutOfOrder ==
    /\ pc = "done"
    /\ \E k \in 1..(Len(output_data) - 1) :
           /\ output_data[k].frame > output_data[k + 1].frame
           /\ DOMAIN output_data[k].joints /= DOMAIN output_data[k + 1].joints

\* the rows of one hand in file order: row i is the one frame i - 1 reads
RowsOf(hand_df, chirality) == SelectSeq(hand_df, LAMBDA row : row.chirality = chirality)

\* C19: in every frame the head sample and the left and right hand rows that
\* were passed to the reconstruction have the timestamp written in the record.
C19_FrameInputsShareTimestamp ==
    \A i \in 1..Len(all_frames_data) :
        /\ device_data[i].t_mono = all_frames_data[i].t_mono
        /\ \A side \in Sides : RowsOf(hand_data, side)[i].t_mono = all_frames_data[i].t_mono

\* the rows of the source hand stream of one side at one timestamp
SourceRows(side, t) ==
    {k \in 1..Len(hand_data) : hand_data[k].chirality = side /\ hand_data[k].t_mono = t}

\* C20: for every frame, side and finger landmark, the record holds the
\* landmark's seven values if and only if the landmark is present in the source
\* hand row of that side at the frame's timestamp, and the values are those of
\* the source row (of the last such row, where the stream repeats a timestamp).
C20_FingersCopiedIffPresent ==
    \A i \in 1..Len(output_data) :
        \A side \in Sides :
            \A joint \in finger_joints :
                LET rows == SourceRows(side, output_data[i].t_mono)
                    last == Max(rows)
                IN  /\ <<side, joint>> \in DOMAIN output_data[i].fingers <=>
                           (rows /= {} /\ hand_data[last].lm[joint] /= NaN)
                    /\ <<side, joint>> \in DOMAIN output_data[i].fingers =>
                           /\ Len(output_data[i].fingers[<<side, joint>>]) = 7
                           /\ output_data[i].fingers[<<side, joint>>] = hand_data[last].lm[joint]

\* C20's case: a frame that holds the fingers of one hand while the other hand
\* has a row at that timestamp without finger landmarks
C20_FingersOfOneHandOnly ==
    \E i \in 1..Len(output_data) :
        /\ \E joint \in finger_joints : <<"left", joint>> \in DOMAIN output_data[i].fingers
        /\ SourceRows("right", output_data[i].t_mono) /= {}
        /\ \A joint \in finger_joints : <<"right", joint>> \notin DOMAIN output_data[i].fingers

WithoutEarlierDuplicates(rows) ==
    LET kept == {k \in 1..Len(rows) :
                    \A n \in (k + 1)..Len(rows) :
                        rows[n].t_mono /= rows[k].t_mono \/ rows[n].chirality /= rows[k].chirality}
        nth(i) == CHOOSE k \in kept : Cardinality({j \in kept : j <= k}) = i
    IN  [i \in 1..Cardinality(kept) |-> rows[nth(i)]]

\* C22: once load_and_organize_data has run, every timestamp and side with
\* several rows in the hand stream has exactly one frame, the side's data in it
\* is that of the last such row, and the frames are those of the stream without
\* the earlier rows.
C22_LastDuplicateRowWins ==
    LoadCalled =>
        /\ \A side \in Sides : \A t \in SideTimestamps(hand_data, side) :
               Cardinality(SourceRows(side, t)) > 1 =>
                   /\ Cardinality({i \in 1..Len(organized) : organized[i].t_mono = t}) = 1
                   /\ \A i \in 1..Len(organized) :
                          organized[i].t_mono = t =>
                              organized[i][side] = <<hand_data[Max(SourceRows(side, t))].lm>>
        /\ organized = organized_data(WithoutEarlierDuplicates(hand_data))

\* no two rows of a frame have the same (t_mono, t_wall)
UniqueKeys(rows) ==
    \A a, b \in 1..Len(rows) :
        (rows[a].t_mono = rows[b].t_mono /\ rows[a].t_wall = rows[b].t_wall) => a = b

\* C23: when join_datasets returns, it has kept every calculated frame in its
\* order; in each joined row the columns of a side are empty exactly when no
\* row of that side has the row's (t_mono, t_wall), and otherwise are those of
\* such a row; with unique device timestamps and at most one row per side and
\* (t_mono, t_wall) the joined output has as many rows as the calculated data.
C23_JoinKeepsEveryFrame ==
    (Len(ret) = 1 /\ args[1] = "join_datasets") =>
        LET joined == ret[1]
            calculated == args[4]
        IN  /\ \A i \in 1..Len(calculated) :
                   \E k \in 1..Len(joined) :
                       /\ joined[k].frame = calculated[i].frame
                       /\ joined[k].t_mono = calculated[i].t_mono
                       /\ joined[k].t_wall = calculated[i].t_wall
            /\ \A k \in 1..Len(joined) :
                   /\ joined[k].frame \in {calculated[i].frame : i \in 1..Len(calculated)}
                   /\ k > 1 => joined[k - 1].frame <= joined[k].frame
                   /\ \A side \in Sides :
                          LET rows == {n \in 1..Len(args[3]) :
                                          /\ args[3][n].chirality = side
                                          /\ args[3][n].t_mono = joined[k].t_mono
                                          /\ args[3][n].t_wall = joined[k].t_wall}
                          IN  /\ joined[k][side] = <<>> <=> rows = {}
                              /\ joined[k][side] /= <<>> =>
                                     \E n \in rows : joined[k][side][1] = args[3][n]
            /\ (UniqueKeys(args[2]) /\ \A side \in Sides : UniqueKeys(RowsOf(args[3], side))) =>
                   Len(joined) = Len(calculated)

\* C23's case: two frames joined in their order, the first with a left row and
\* no right row at its timestamp, the second with no device t_wall shared by a
\* hand row
C23_JoinedWithOneSideEmpty ==
    /\ Len(ret) = 1
    /\ args[1] = "join_datasets"
    /\ Len(ret[1]) = 2
    /\ Len(args[4]) = 2
    /\ ret[1][1].left /= <<>>
    /\ ret[1][1].right = <<>>
    /\ ret[1][2].left = <<>>
    /\ ret[1][2].t_mono = ret[1][1].t_mono

\* C24: after update_frame(i), whatever calls came before, each body bone line
\* holds the two endpoint positions of frame i if both endpoint joints are
\* present in frame i, and no point otherwise.
C24_BoneLinesShowCurrentFrame ==
    update_calls /= <<>> =>
        LET row == viewer_df[update_calls[Len(update_calls)] + 1]
            there(n) == n \in DOMAIN row /\ row[n] /= NaN
        IN  \A k \in 1..Len(SKELETON_CONNECTIONS) :
                LET a == SKELETON_CONNECTIONS[k][1]
                    b == SKELETON_CONNECTIONS[k][2]
                IN  IF there(a) /\ there(b)
                    THEN animator.body_lines[k] = <<row[a], row[b]>>
                    ELSE animator.body_lines[k] = <<>>

\* C24's case: a bone whose joints were both in the frame of an earlier call,
\* with one of them absent in the frame of the last call
C24_BoneGoneAfterEarlierFrame ==
    /\ Len(update_calls) >= 2
    /\ \E k \in 1..Len(SKELETON_CONNECTIONS) :
           LET a == SKELETON_CONNECTIONS[k][1]
               b == SKELETON_CONNECTIONS[k][2]
               before == viewer_df[update_calls[Len(update_calls) - 1] + 1]
               now == viewer_df[update_calls[Len(update_calls)] + 1]
           IN  /\ a \in DOMAIN before /\ b \in DOMAIN before
               /\ a \notin DOMAIN now \/ b \notin DOMAIN now
               /\ animator.body_lines[k] = <<>>

====
